---- MODULE Spec2Model ----
(***************************************************************************)
(* ask-cli: the context-to-command pipeline of the "ask" terminal          *)
(* assistant (generate and explain), its storage helpers, the completion   *)
(* client's error classification and the response normalizer.              *)
(*                                                                         *)
(* Text is modelled as a sequence of characters (one-character strings),   *)
(* so that trimming, prefix tests, slicing and regular-expression tests    *)
(* are computed as the JavaScript computes them.  The grave accent U+0060  *)
(* is written BT, the line feed NL.                                        *)
(*                                                                         *)
(* One behaviour is one run of the process: the preAction hook, then the   *)
(* action handler of the command, cut at its awaits and at the calls that  *)
(* reach outside the process.  The ora spinner (standard error, cosmetic)  *)
(* and the entries cmdbook keeps are left out; what saveToCmdBook prints   *)
(* is kept.  appendHistory of two invocations on the same history.json is  *)
(* modelled on its own, cut at its file system calls.                      *)
(***************************************************************************)
EXTENDS Integers, Sequences, FiniteSets, TLC

VARIABLES
    pc,           \* position of the invocation in its action handler
    argv,         \* the parsed command line of the invocation
    configFile,   \* contents of ~/.ask-cli/config.json
    historyFile,  \* contents of ~/.ask-cli/history.json
    history0,     \* contents of history.json when the invocation started
    envPrimary,   \* process.env.ASK_CLI_API_KEY
    envSecondary, \* process.env.OPENAI_API_KEY
    apiKey,       \* effectiveApiKey of the handler
    probe,        \* outcomes of the environment sub-probes of this invocation
    prompt,       \* the prompt handed to callLLM
    llmCalls,     \* number of client.chat.completions.create calls issued
    response,     \* what the transport answered
    errClass,     \* class of the error callLLM threw to its caller
    rawText,      \* rawText of the handler
    stripped,     \* stripped of the handler
    cleaned,      \* cleanResponse(rawText) of src/index.ts
    parsed,       \* parsed of the handler
    stdout,       \* what the invocation wrote to standard output, in order
    stderr,       \* what the invocation wrote to standard error, in order
    clipboard,    \* texts handed to clipboard.write, in order
    exitCode,     \* exit status once pc = "exited"
    appenders     \* invocations running appendHistory side by side: for each
                  \* its position, its entry and its local list

vars == <<pc, argv, configFile, historyFile, history0, envPrimary, envSecondary,
          apiKey, probe, prompt, llmCalls, response, errClass, rawText,
          stripped, cleaned, parsed, stdout, stderr, clipboard, exitCode,
          appenders>>

-----------------------------------------------------------------------------
(* Characters and JavaScript string primitives                             *)

BT == "bt"
NL == "\n"
SP == " "
FENCE == <<BT, BT, BT>>

\* undefined / a value that is not there
ABSENT == "<absent>"

IsSpace(c) == c \in {SP, NL, "\t"}

RECURSIVE trimStart(_)
trimStart(s) == IF s # <<>> /\ IsSpace(Head(s)) THEN trimStart(Tail(s)) ELSE s

RECURSIVE trimEnd(_)
trimEnd(s) ==
    IF s # <<>> /\ IsSpace(s[Len(s)]) THEN trimEnd(SubSeq(s, 1, Len(s) - 1)) ELSE s

\* String.prototype.trim
trim(s) == trimEnd(trimStart(s))

\* String.prototype.startsWith / endsWith
startsWith(s, p) == Len(p) <= Len(s) /\ SubSeq(s, 1, Len(p)) = p
endsWith(s, p) == Len(p) <= Len(s) /\ SubSeq(s, Len(s) - Len(p) + 1, Len(s)) = p

\* String.prototype.indexOf for one character: 0-based, -1 when not found
indexOf(s, c) ==
    IF \E i \in 1..Len(s) : s[i] = c
    THEN (CHOOSE i \in 1..Len(s) : s[i] = c /\ \A j \in 1..(i - 1) : s[j] # c) - 1
    ELSE -1

\* String.prototype.slice(a, b) for 0 <= a and 0 <= b <= length
slice(s, a, b) == SubSeq(s, a + 1, b)

\* t.replace(/```/g, ""): every non-overlapping fence, left to right, removed
RECURSIVE removeFences(_)
removeFences(s) ==
    IF s = <<>> THEN <<>>
    ELSE IF startsWith(s, FENCE) THEN removeFences(SubSeq(s, 4, Len(s)))
    ELSE <<Head(s)>> \o removeFences(Tail(s))

\* the text a sequence of fragments spells
RECURSIVE Concat(_)
Concat(fs) == IF fs = <<>> THEN <<>> ELSE Head(fs) \o Concat(Tail(fs))

\* every text spelled by at most n fragments
Texts(frags, n) == { Concat(fs) : fs \in UNION { [1..k -> frags] : k \in 0..n } }

-----------------------------------------------------------------------------
(* Response normalizer                                                     *)

\* stripCodeFences, first if: the triple-backtick fence
stripFenceLayer(t) ==
    IF startsWith(t, FENCE) /\ endsWith(t, FENCE)
    THEN IF indexOf(t, NL) # -1
         THEN trim(slice(t, indexOf(t, NL) + 1, Len(t) - 3))
         ELSE trim(removeFences(t))
    ELSE t

\* stripCodeFences, second if: one pair of wrapping backticks
stripTickLayer(t) ==
    IF startsWith(t, <<BT>>) /\ endsWith(t, <<BT>>) /\ Len(t) > 2
    THEN trim(slice(t, 1, Len(t) - 1))
    ELSE t

\* stripCodeFences: the two ifs run one after the other on the same t
stripCodeFences(text) == stripTickLayer(stripFenceLayer(trim(text)))

\* cleanResponse of src/index.ts: if / else if, then a final trim
cleanResponse(text) ==
    LET t == trim(text) IN
    IF startsWith(t, FENCE) /\ endsWith(t, FENCE)
    THEN IF indexOf(t, NL) # -1
         THEN trim(trim(slice(t, indexOf(t, NL) + 1, Len(t) - 3)))
         ELSE trim(trim(removeFences(t)))
    ELSE IF startsWith(t, <<BT>>) /\ endsWith(t, <<BT>>)
         THEN trim(trim(slice(t, 1, Len(t) - 1)))
         ELSE trim(t)

-----------------------------------------------------------------------------
(* Completion client: callLLM                                              *)

UPPER == <<"A", "B", "C", "D", "E", "F", "G", "H", "I", "J", "K", "L", "M",
           "N", "O", "P", "Q", "R", "S", "T", "U", "V", "W", "X", "Y", "Z">>
LOWER == <<"a", "b", "c", "d", "e", "f", "g", "h", "i", "j", "k", "l", "m",
           "n", "o", "p", "q", "r", "s", "t", "u", "v", "w", "x", "y", "z">>

toLowerChar(c) ==
    IF \E i \in 1..Len(UPPER) : UPPER[i] = c
    THEN LOWER[CHOOSE i \in 1..Len(UPPER) : UPPER[i] = c]
    ELSE c

toLowerCase(s) == [i \in 1..Len(s) |-> toLowerChar(s[i])]

\* s.includes(p)
includes(s, p) == \E i \in 0..(Len(s) - Len(p)) : SubSeq(s, i + 1, i + Len(p)) = p

\* /<word>/i.test(msg) for a pattern of lower-case letters and spaces
testIgnoreCase(word, msg) == includes(toLowerCase(msg), word)

S_API_KEY == <<"a", "p", "i", SP, "k", "e", "y">>
S_AUTHENTICATION == <<"a", "u", "t", "h", "e", "n", "t", "i", "c", "a", "t", "i", "o", "n">>
S_TIMEOUT == <<"t", "i", "m", "e", "o", "u", "t">>
\* the message of the AskContentError thrown inside callLLM's try block
EMPTY_RESPONSE_MSG == <<"E", "m", "p", "t", "y", SP, "r", "e", "s", "p", "o", "n", "s", "e", SP,
                        "f", "r", "o", "m", SP, "O", "p", "e", "n", "A", "I">>
\* String(err) of an Error whose message is empty
S_ERROR == <<"E", "r", "r", "o", "r">>

\* err?.message || String(err)
errorMessage(message) == IF message # <<>> THEN message ELSE S_ERROR

\* classifyError with the two tests in the other order
classifyError_TimeoutFirst(msg) ==
    IF testIgnoreCase(S_TIMEOUT, msg) THEN "AskTimeoutError"
    ELSE IF testIgnoreCase(S_API_KEY, msg) \/ testIgnoreCase(S_AUTHENTICATION, msg)
         THEN "AskAuthError"
    ELSE "AskError"

\* the catch block of callLLM: the class of the error it rethrows
classifyError(msg) ==
    IF testIgnoreCase(S_API_KEY, msg) \/ testIgnoreCase(S_AUTHENTICATION, msg)
    THEN "AskAuthError"
    ELSE IF testIgnoreCase(S_TIMEOUT, msg) THEN "AskTimeoutError"
    ELSE "AskError"

\* the catch block of callLLM: every error thrown in the try block, the
\* AskContentError included, lands here and is rethrown by message
rethrow(message) ==
    [threw |-> TRUE, class |-> classifyError(errorMessage(message)),
     text |-> errorMessage(message)]

\* What the transport answers: an error with a message, a completion with
\* no content (null), or a completion with content.
TransportError(m) == [kind |-> "error", text |-> m]
TransportNull == [kind |-> "null", text |-> <<>>]
TransportContent(c) == [kind |-> "content", text |-> c]

\* callLLM: what its caller gets, a returned text or a thrown error
callLLM(resp) ==
    IF resp.kind = "error" THEN rethrow(resp.text)
    ELSE IF resp.kind = "null" \/ trim(resp.text) = <<>>
         THEN rethrow(EMPTY_RESPONSE_MSG)
    ELSE [threw |-> FALSE, class |-> "none", text |-> trim(resp.text)]

-----------------------------------------------------------------------------
(* Output helpers: splitCommandAndExplanation                              *)

SENTINEL == <<"#", SP, "e", "x", "p", "l", "a", "i", "n", ":">>

\* raw.split("\n")
RECURSIVE splitLines(_)
splitLines(s) ==
    IF indexOf(s, NL) = -1 THEN <<s>>
    ELSE <<slice(s, 0, indexOf(s, NL))>> \o splitLines(slice(s, indexOf(s, NL) + 1, Len(s)))

\* parts.join(sep)
RECURSIVE join(_, _)
join(parts, sep) ==
    IF parts = <<>> THEN <<>>
    ELSE IF Len(parts) = 1 THEN parts[1]
    ELSE parts[1] \o sep \o join(Tail(parts), sep)

\* the lines of raw, each trimmed
trimmedLines(raw) == [i \in 1..Len(splitLines(raw)) |-> trim(splitLines(raw)[i])]

\* the sentinel left in place
stripSentinel_KeepPrefix(line) == trim(line)

\* line.replace(/^# explain:\s*/, "").trim()
stripSentinel(line) == trim(trimStart(slice(line, Len(SENTINEL), Len(line))))

RECURSIVE selectLines(_, _)
selectLines(lines, sentinel) ==
    IF lines = <<>> THEN <<>>
    ELSE IF startsWith(Head(lines), SENTINEL) = sentinel
         THEN <<Head(lines)>> \o selectLines(Tail(lines), sentinel)
         ELSE selectLines(Tail(lines), sentinel)

\* the loop left at the first sentinel line
commandLines_BreakAtSentinel(raw) ==
    LET ls == trimmedLines(raw)
        firsts == {i \in 1..Len(ls) : startsWith(ls[i], SENTINEL)}
    IN IF firsts = {} THEN ls
       ELSE SubSeq(ls, 1, (CHOOSE i \in firsts : \A j \in firsts : i <= j) - 1)

\* the commands array of splitCommandAndExplanation
commandLines(raw) == selectLines(trimmedLines(raw), FALSE)

\* the explanations array of splitCommandAndExplanation
explanationLines(raw) ==
    LET ls == selectLines(trimmedLines(raw), TRUE)
    IN [i \in 1..Len(ls) |-> stripSentinel(ls[i])]

\* splitCommandAndExplanation; explanation is null when hasExplanation is FALSE
splitCommandAndExplanation(raw) ==
    [command |-> trim(join(commandLines(raw), <<NL>>)),
     hasExplanation |-> explanationLines(raw) # <<>>,
     explanation |-> join(explanationLines(raw), <<SP>>)]

NoParsed == [command |-> <<>>, hasExplanation |-> FALSE, explanation |-> <<>>]

-----------------------------------------------------------------------------
(* Storage helpers                                                         *)

\* A file is missing, holds text JSON.parse rejects ("garbage"), or holds
\* JSON: null, an object (a config with its apiKey) or an array (of history
\* entries).  JSON numbers and strings behave as an object without apiKey
\* when read as a config and are not modelled separately.
FileMissing == [kind |-> "missing", apiKey |-> ABSENT, items |-> <<>>]
FileGarbage == [kind |-> "garbage", apiKey |-> ABSENT, items |-> <<>>]
FileNull == [kind |-> "null", apiKey |-> ABSENT, items |-> <<>>]
FileObject(k) == [kind |-> "object", apiKey |-> k, items |-> <<>>]
FileArray(xs) == [kind |-> "array", apiKey |-> ABSENT, items |-> xs]

\* JSON.parse of a file that parses: the value, tagged by its JavaScript type
jsonValue(file) == [type |-> file.kind, apiKey |-> file.apiKey, items |-> file.items]

EmptyObject == [type |-> "object", apiKey |-> ABSENT, items |-> <<>>]
EmptyArray == [type |-> "array", apiKey |-> ABSENT, items |-> <<>>]

\* readConfig: {} when the file is missing or does not parse
readConfig(file) ==
    IF file.kind = "missing" THEN EmptyObject
    ELSE IF file.kind = "garbage" THEN EmptyObject
    ELSE jsonValue(file)

\* readHistory: [] when the file is missing or does not parse
readHistory(file) ==
    IF file.kind = "missing" THEN EmptyArray
    ELSE IF file.kind = "garbage" THEN EmptyArray
    ELSE jsonValue(file)

\* loadConfig of src/index.ts: JSON.parse outside any try block
loadConfig(file) ==
    IF file.kind = "missing" THEN [threw |-> FALSE, value |-> EmptyObject]
    ELSE IF file.kind = "garbage" THEN [threw |-> TRUE, value |-> EmptyObject]
    ELSE [threw |-> FALSE, value |-> jsonValue(file)]

\* loadHistory of src/index.ts: JSON.parse outside any try block
loadHistory(file) ==
    IF file.kind = "missing" THEN [threw |-> FALSE, value |-> EmptyArray]
    ELSE IF file.kind = "garbage" THEN [threw |-> TRUE, value |-> EmptyArray]
    ELSE [threw |-> FALSE, value |-> jsonValue(file)]

\* cfg.apiKey: reading a property of null throws a TypeError
readsApiKey(cfg) == cfg.type # "null"

\* list.push: only an array has push; anything else throws a TypeError
canPush(list) == list.type = "array"

\* JSON.stringify(list) written to the history file, as it reads back
writtenHistory(items) == FileArray(items)

\* JSON.stringify(cfg) written to the config file, as it reads back
writtenConfig(cfg) ==
    IF cfg.type = "array" THEN FileArray(cfg.items) ELSE FileObject(cfg.apiKey)

\* appendHistory writing the new entry alone
appendHistory_Overwrite(file, entry) ==
    IF canPush(readHistory(file))
    THEN [threw |-> FALSE, file |-> writtenHistory(<<entry>>)]
    ELSE [threw |-> TRUE, file |-> file]

\* appendHistory: the file after it, or threw when list.push is no function
appendHistory(file, entry) ==
    IF canPush(readHistory(file))
    THEN [threw |-> FALSE, file |-> writtenHistory(Append(readHistory(file).items, entry))]
    ELSE [threw |-> TRUE, file |-> file]

\* a history entry; the timestamp is the clock reading at the append
NOW == "now"
HistoryEntry(ts, m, q, a) == [timestamp |-> ts, mode |-> m, question |-> q, answer |-> a]

-----------------------------------------------------------------------------
(* Environment probes and prompt construction                              *)

\* Outcome of each sub-probe of buildGeneratePrompt:
\*   user    os.userInfo(): "ok", or "throws" (no passwd entry for the uid)
\*   tools   the which/where lookups: "ok", or "throws" (spawnSync throws)
\*   files   fs.readdirSync(cwd): "ok" or "throws"
\*   git     "none" (no .git directory) or "repo"
\*   branch  git rev-parse: "ok", or "fails" (non-zero exit or a throw)
\*   status  git status --short: "ok" or "fails"
\*   rc      .askrc.json: "missing", "unreadable" (readFileSync throws),
\*           "garbage" (JSON.parse rejects it), "null", "object" (a well
\*           formed descriptor) or "badTags" (an object whose tags is a
\*           non-empty string instead of an array)
Probes ==
    [user : {"ok", "throws"}, tools : {"ok", "throws"}, files : {"ok", "throws"},
     git : {"none", "repo"}, branch : {"ok", "fails"}, status : {"ok", "fails"},
     rc : {"missing", "unreadable", "garbage", "null", "object", "badTags"}]

NoProbe ==
    [user |-> "ok", tools |-> "ok", files |-> "ok", git |-> "none",
     branch |-> "ok", status |-> "ok", rc |-> "missing"]

\* number of sub-probes that fail in one invocation
MaxFaults == 1

Faults(p) ==
    Cardinality({ f \in {"user", "tools", "files"} : p[f] = "throws" })
      + Cardinality({ f \in {"branch", "status"} : p[f] = "fails" })
      + (IF p.rc \in {"missing", "object"} THEN 0 ELSE 1)

\* a probe record is kept in one form: without a repository the two git
\* queries are not run
ProbeInputs ==
    { p \in Probes : /\ p.git = "none" => (p.branch = "ok" /\ p.status = "ok")
                     /\ Faults(p) <= MaxFaults }

\* detectTools over commandInPath, whose try block turns a throw into false
detectTools(p) == IF p.tools = "ok" THEN "git, npm, node" ELSE ""

\* summarizeFiles
summarizeFiles(p) == IF p.files = "ok" THEN "listing" ELSE "unavailable"

\* detectGitContext
detectGitContext(p) ==
    IF p.git = "none"
    THEN [isRepo |-> FALSE, branch |-> ABSENT, summary |-> ABSENT]
    ELSE [isRepo |-> TRUE,
          branch |-> IF p.branch = "ok" THEN "main" ELSE ABSENT,
          summary |-> IF p.status = "ok" THEN "M file" ELSE ABSENT]

\* readProjectConfig: null unless the descriptor exists, is read and parses;
\* JSON null parses to null as well
readProjectConfig(p) ==
    IF p.rc \in {"missing", "unreadable", "garbage", "null"} THEN "null" ELSE p.rc

\* a prompt that was not built: the builder threw
PromptThrew ==
    [threw |-> TRUE, template |-> "none", user |-> ABSENT, tools |-> ABSENT,
     files |-> ABSENT, gitRepo |-> ABSENT, gitBranch |-> ABSENT,
     gitStatus |-> ABSENT, project |-> ABSENT, request |-> ABSENT]

NoPrompt ==
    [threw |-> FALSE, template |-> "none", user |-> ABSENT, tools |-> ABSENT,
     files |-> ABSENT, gitRepo |-> ABSENT, gitBranch |-> ABSENT,
     gitStatus |-> ABSENT, project |-> ABSENT, request |-> ABSENT]

\* buildGeneratePrompt: os.userInfo() is called bare, and tags.join is
\* called on whatever truthy tags with a truthy length the descriptor holds
buildGeneratePrompt(p, q) ==
    IF p.user = "throws" THEN PromptThrew
    ELSE IF readProjectConfig(p) = "badTags" THEN PromptThrew
    ELSE [threw |-> FALSE, template |-> "generate", user |-> "me",
          tools |-> IF detectTools(p) # "" THEN detectTools(p) ELSE "none detected",
          files |-> summarizeFiles(p),
          gitRepo |-> IF detectGitContext(p).isRepo THEN "yes" ELSE "no",
          gitBranch |-> detectGitContext(p).branch,
          gitStatus |-> detectGitContext(p).summary,
          project |-> IF readProjectConfig(p) = "null" THEN ABSENT ELSE "stack",
          request |-> q]

\* buildExplainPrompt: platform, shell and cwd only
buildExplainPrompt(c) ==
    [threw |-> FALSE, template |-> "explain", user |-> ABSENT, tools |-> ABSENT,
     files |-> ABSENT, gitRepo |-> ABSENT, gitBranch |-> ABSENT,
     gitStatus |-> ABSENT, project |-> ABSENT, request |-> c]

-----------------------------------------------------------------------------
(* Command line, credential and the inputs of an invocation                *)

\* a || b of JavaScript on strings and undefined
truthy(v) == v # ABSENT /\ v # ""
orElse(a, b) == IF truthy(a) THEN a ELSE b

\* cfg.apiKey || process.env.ASK_CLI_API_KEY || process.env.OPENAI_API_KEY
effectiveApiKey(cfg, e1, e2) == orElse(orElse(cfg.apiKey, e1), e2)

\* const { silent, type, json, noClipboard, save } = options: commander
\* files the flag --no-clipboard under the key "clipboard", so options
\* holds no key noClipboard and the destructured value is undefined
noClipboard(a) == FALSE

\* questionParts.join(" ").trim(), and commandParts likewise: empty when
\* the words given are blank
Questions == {"", "list branches"}

Argvs ==
    { a \in [cmd : {"ask", "explain"}, setKey : {ABSENT, "new-key"},
             history : BOOLEAN, question : Questions, silent : BOOLEAN,
             type : BOOLEAN, json : BOOLEAN, noClipboard : BOOLEAN,
             save : BOOLEAN] :
        \* explain takes <command...> and --json only
        /\ a.cmd = "explain" =>
              /\ a.setKey = ABSENT /\ ~a.history
              /\ ~a.silent /\ ~a.type /\ ~a.noClipboard /\ ~a.save
        \* the first branch taken hides every later option
        /\ (a.setKey # ABSENT \/ a.history \/ a.question = "") =>
              ~a.silent /\ ~a.type /\ ~a.json /\ ~a.noClipboard /\ ~a.save
        /\ a.setKey # ABSENT => ~a.history /\ a.question = "" }

\* the command lines without --silent, --type, --no-clipboard and --save
PlainArgvs == { a \in Argvs : ~a.silent /\ ~a.type /\ ~a.noClipboard /\ ~a.save }

\* number of entries history.json may hold before the invocation
MaxHistory == 1

OldEntry(i) == HistoryEntry("earlier", "generate", "old question", <<"o", "k">>)

ConfigFiles ==
    {FileMissing, FileGarbage, FileNull} \cup { FileObject(k) : k \in {ABSENT, "", "cfg-key"} }

HistoryFiles ==
    {FileMissing, FileGarbage, FileNull, FileObject(ABSENT)}
        \cup { FileArray([i \in 1..n |-> OldEntry(i)]) : n \in 0..MaxHistory }

PrimaryValues == {ABSENT, "", "env-key-1"}
SecondaryValues == {ABSENT, "env-key-2"}

\* what the transport may answer in the pipeline
MSG_BAD_KEY == <<"I", "n", "c", "o", "r", "r", "e", "c", "t", SP, "A", "P", "I", SP, "k", "e", "y">>
MSG_AUTH == <<"A", "u", "t", "h", "e", "n", "t", "i", "c", "a", "t", "i", "o", "n", SP,
              "f", "a", "i", "l", "e", "d">>
MSG_TIMEOUT == <<"R", "e", "q", "u", "e", "s", "t", SP, "T", "i", "m", "e", "o", "u", "t">>
MSG_RESET == <<"E", "C", "O", "N", "N", "R", "E", "S", "E", "T">>

ErrorMessages == {MSG_BAD_KEY, MSG_AUTH, MSG_TIMEOUT, MSG_RESET, <<>>}

Contents ==
    { <<>>,                                              \* an empty completion
      <<SP, NL>>,                                        \* whitespace only
      <<"l", "s">>,                                      \* a bare command
      <<SP, "l", "s", NL>>,                              \* with surrounding whitespace
      FENCE \o <<"s", "h", NL, "l", "s", NL>> \o FENCE,  \* fenced, with a language tag
      FENCE \o FENCE,                                    \* a fence around nothing
      FENCE \o <<NL>> \o FENCE,                          \* a fence around an empty line
      <<BT, "l", "s", BT>>,                              \* one backtick pair
      <<"r", "m", NL>> \o SENTINEL \o <<SP, "x">>,       \* a command and its warning
      SENTINEL \o <<SP, "x">> }                          \* the warning alone

Responses ==
    { TransportError(m) : m \in ErrorMessages } \cup {TransportNull}
        \cup { TransportContent(c) : c \in Contents }

NoResponse == [kind |-> "none", text |-> <<>>]

-----------------------------------------------------------------------------
(* The invocation                                                          *)

Out(k, t) == [kind |-> k, text |-> t]

S_TYPE_ERROR == <<"T", "y", "p", "e", "E", "r", "r", "o", "r">>

\* process.exit(code), or the handler returning (code 0)
Exit(code) == pc' = "exited" /\ exitCode' = code

\* no second invocation runs beside this one
NoAppenders == <<>>

\* the state when the process starts, over the given inputs
InitOver(argvs, configs, primaries, secondaries, histories) ==
    /\ pc = "hook"
    /\ argv \in argvs
    /\ configFile \in configs
    /\ historyFile \in histories
    /\ history0 = historyFile
    /\ envPrimary \in primaries
    /\ envSecondary \in secondaries
    /\ apiKey = ABSENT
    /\ probe = NoProbe
    /\ prompt = NoPrompt
    /\ llmCalls = 0
    /\ response = NoResponse
    /\ errClass = "none"
    /\ rawText = <<>>
    /\ stripped = <<>>
    /\ cleaned = <<>>
    /\ parsed = NoParsed
    /\ stdout = <<>>
    /\ stderr = <<>>
    /\ clipboard = <<>>
    /\ exitCode = -1
    /\ appenders = NoAppenders

\* every command line, config file and history file; the key, if any, comes
\* from the config file
Init == InitOver(Argvs, ConfigFiles, {ABSENT}, {ABSENT}, HistoryFiles)

\* every config file and every value of the two environment variables, for
\* the command lines without presentation flags
InitCredential ==
    InitOver(PlainArgvs, ConfigFiles, PrimaryValues, SecondaryValues,
             {FileMissing, FileArray(<<>>)})

\* the preAction hook: header() before the action handler of any command
PreAction ==
    /\ pc = "hook"
    /\ stdout' = Append(stdout, Out("header", <<>>))
    /\ pc' = "start"
    /\ UNCHANGED <<appenders, argv, configFile, historyFile, history0, envPrimary, envSecondary,
                   apiKey, probe, prompt, llmCalls, response, errClass, rawText,
                   stripped, cleaned, parsed, stderr, clipboard, exitCode>>

\* an exception nothing catches: the async handler's promise rejects with
\* no handler attached (program.parse does not await it), Node prints the
\* error and the process exits with status 1
Uncaught ==
    /\ stderr' = Append(stderr, Out("uncaught", S_TYPE_ERROR))
    /\ Exit(1)

\* generate handler, globalOpts.apiKey: store the key and return
SetApiKey ==
    /\ pc = "start" /\ argv.cmd = "ask" /\ argv.setKey # ABSENT
    /\ IF readsApiKey(readConfig(configFile))
       THEN /\ configFile' = writtenConfig([readConfig(configFile) EXCEPT !.apiKey = argv.setKey])
            /\ stdout' = Append(stdout, Out("key-updated", <<>>))
            /\ Exit(0)
            /\ UNCHANGED stderr
       ELSE /\ Uncaught
            /\ UNCHANGED <<configFile, stdout>>
    /\ UNCHANGED <<appenders, argv, historyFile, history0, envPrimary, envSecondary, apiKey, probe,
                   prompt, llmCalls, response, errClass, rawText, stripped, cleaned,
                   parsed, clipboard>>

\* generate handler, globalOpts.history: printHistory and return
ShowHistory ==
    /\ pc = "start" /\ argv.cmd = "ask" /\ argv.setKey = ABSENT /\ argv.history
    /\ IF readHistory(historyFile).type = "null"
       THEN /\ Uncaught
            /\ UNCHANGED stdout
       ELSE /\ stdout' =
                 IF readHistory(historyFile).items = <<>>
                 THEN Append(stdout, Out("no-history", <<>>))
                 ELSE stdout \o [i \in 1..Len(readHistory(historyFile).items) |->
                                   Out("history-item", readHistory(historyFile).items[i].answer)]
            /\ Exit(0)
            /\ UNCHANGED stderr
    /\ UNCHANGED <<appenders, argv, configFile, historyFile, history0, envPrimary, envSecondary,
                   apiKey, probe, prompt, llmCalls, response, errClass, rawText,
                   stripped, cleaned, parsed, clipboard>>

\* generate handler, no question: program.outputHelp() and return
ShowHelp ==
    /\ pc = "start" /\ argv.cmd = "ask" /\ argv.setKey = ABSENT /\ ~argv.history
    /\ argv.question = ""
    /\ stdout' = Append(stdout, Out("help", <<>>))
    /\ Exit(0)
    /\ UNCHANGED <<appenders, argv, configFile, historyFile, history0, envPrimary, envSecondary,
                   apiKey, probe, prompt, llmCalls, response, errClass, rawText,
                   stripped, cleaned, parsed, stderr, clipboard>>

\* readConfig, the credential resolution and the missing-key exit, as both
\* handlers write them
ResolveCredential ==
    /\ IF ~readsApiKey(readConfig(configFile))
       THEN /\ Uncaught
            /\ UNCHANGED apiKey
       ELSE /\ apiKey' = effectiveApiKey(readConfig(configFile), envPrimary, envSecondary)
            /\ IF ~truthy(apiKey')
               THEN /\ stderr' = Append(stderr, Out("no-api-key", <<>>))
                    /\ Exit(1)
               ELSE /\ pc' = "prompt"
                    /\ UNCHANGED <<stderr, exitCode>>
    /\ UNCHANGED <<appenders, argv, configFile, historyFile, history0, envPrimary, envSecondary,
                   probe, prompt, llmCalls, response, errClass, rawText, stripped,
                   cleaned, parsed, stdout, clipboard>>

\* generate handler: the credential
GenerateCredential ==
    /\ pc = "start" /\ argv.cmd = "ask" /\ argv.setKey = ABSENT /\ ~argv.history
    /\ argv.question # ""
    /\ ResolveCredential

\* explain handler, blank command: the diagnostic and process.exit(1)
ExplainNoCommand ==
    /\ pc = "start" /\ argv.cmd = "explain" /\ argv.question = ""
    /\ stderr' = Append(stderr, Out("no-command", <<>>))
    /\ Exit(1)
    /\ UNCHANGED <<appenders, argv, configFile, historyFile, history0, envPrimary, envSecondary,
                   apiKey, probe, prompt, llmCalls, response, errClass, rawText,
                   stripped, cleaned, parsed, stdout, clipboard>>

\* explain handler: the credential
ExplainCredential ==
    /\ pc = "start" /\ argv.cmd = "explain" /\ argv.question # ""
    /\ ResolveCredential

\* the catch block around the prompt and the call, in both handlers:
\* console.error(err.message) and process.exit(1)
CallFailed(class, message) ==
    /\ errClass' = class
    /\ stderr' = Append(stderr, Out("error", message))
    /\ Exit(1)

\* generate handler: buildGeneratePrompt, then callLLM issues the request
GenerateCall ==
    /\ pc = "prompt" /\ argv.cmd = "ask"
    /\ \E p \in ProbeInputs :
         /\ probe' = p
         /\ prompt' = buildGeneratePrompt(p, argv.question)
         /\ IF prompt'.threw
            THEN /\ CallFailed("TypeError", S_TYPE_ERROR)
                 /\ UNCHANGED llmCalls
            ELSE /\ llmCalls' = llmCalls + 1
                 /\ pc' = "awaiting"
                 /\ UNCHANGED <<errClass, stderr, exitCode>>
    /\ UNCHANGED <<appenders, argv, configFile, historyFile, history0, envPrimary, envSecondary,
                   apiKey, response, rawText, stripped, cleaned, parsed, stdout,
                   clipboard>>

\* explain handler: buildExplainPrompt, then callLLM issues the request
ExplainCall ==
    /\ pc = "prompt" /\ argv.cmd = "explain"
    /\ prompt' = buildExplainPrompt(argv.question)
    /\ llmCalls' = llmCalls + 1
    /\ pc' = "awaiting"
    /\ UNCHANGED <<appenders, argv, configFile, historyFile, history0, envPrimary, envSecondary,
                   apiKey, probe, response, errClass, rawText, stripped, cleaned,
                   parsed, stdout, stderr, clipboard, exitCode>>

\* Completion with a catch block that goes back to the call
Completion_Retry ==
    /\ pc = "awaiting"
    /\ \E r \in Responses :
         /\ response' = r
         /\ IF callLLM(r).threw
            THEN /\ errClass' = callLLM(r).class
                 /\ stderr' = Append(stderr, Out("error", callLLM(r).text))
                 /\ pc' = "prompt"
                 /\ UNCHANGED <<rawText, exitCode>>
            ELSE /\ rawText' = callLLM(r).text
                 /\ pc' = "normalize"
                 /\ UNCHANGED <<errClass, stderr, exitCode>>
    /\ probe' = NoProbe
    /\ prompt' = NoPrompt
    /\ UNCHANGED <<appenders, argv, configFile, historyFile, history0, envPrimary, envSecondary,
                   apiKey, llmCalls, stripped, cleaned, parsed, stdout, clipboard>>

\* the await of callLLM resolves or rejects; the try block of the handler
\* ends, and with it the scope of prompt
Completion ==
    /\ pc = "awaiting"
    /\ \E r \in Responses :
         /\ response' = r
         /\ IF callLLM(r).threw
            THEN /\ CallFailed(callLLM(r).class, callLLM(r).text)
                 /\ UNCHANGED rawText
            ELSE /\ rawText' = callLLM(r).text
                 /\ pc' = "normalize"
                 /\ UNCHANGED <<errClass, stderr, exitCode>>
    /\ probe' = NoProbe
    /\ prompt' = NoPrompt
    /\ UNCHANGED <<appenders, argv, configFile, historyFile, history0, envPrimary, envSecondary,
                   apiKey, llmCalls, stripped, cleaned, parsed, stdout, clipboard>>

\* generate handler: stripCodeFences and the empty-output exit
GenerateNormalize ==
    /\ pc = "normalize" /\ argv.cmd = "ask"
    /\ stripped' = stripCodeFences(rawText)
    /\ IF trim(stripped') = <<>>
       THEN /\ stderr' = Append(stderr, Out("empty-output", <<>>))
            /\ Exit(1)
       ELSE /\ pc' = "present"
            /\ UNCHANGED <<stderr, exitCode>>
    /\ UNCHANGED <<appenders, argv, configFile, historyFile, history0, envPrimary, envSecondary,
                   apiKey, probe, prompt, llmCalls, response, errClass, rawText,
                   cleaned, parsed, stdout, clipboard>>

\* explain handler: stripCodeFences; nothing looks at its result
ExplainNormalize ==
    /\ pc = "normalize" /\ argv.cmd = "explain"
    /\ stripped' = stripCodeFences(rawText)
    /\ pc' = "present"
    /\ UNCHANGED <<appenders, argv, configFile, historyFile, history0, envPrimary, envSecondary,
                   apiKey, probe, prompt, llmCalls, response, errClass, rawText,
                   cleaned, parsed, stdout, stderr, clipboard, exitCode>>

\* the JSON payload of either handler, as console.log writes it
JsonOut(m, q, c, hasE, e) ==
    [kind |-> "json", text |-> c, mode |-> m, question |-> q,
     hasExplanation |-> hasE, explanation |-> e]

\* generate handler: splitCommandAndExplanation and the presentation
GeneratePresent ==
    /\ pc = "present" /\ argv.cmd = "ask"
    /\ parsed' = splitCommandAndExplanation(stripped)
    /\ stdout' =
         IF argv.json
         THEN Append(stdout, JsonOut("generate", argv.question, parsed'.command,
                                     parsed'.hasExplanation, parsed'.explanation))
         ELSE Append(stdout, Out(IF argv.type /\ ~argv.silent THEN "typewriter" ELSE "plain",
                                 parsed'.command))
              \o (IF parsed'.hasExplanation /\ parsed'.explanation # <<>>
                  THEN <<Out("blank", <<>>), Out("explain-note", parsed'.explanation)>>
                  ELSE <<>>)
    /\ pc' = "clipboard"
    /\ UNCHANGED <<appenders, argv, configFile, historyFile, history0, envPrimary, envSecondary,
                   apiKey, probe, prompt, llmCalls, response, errClass, rawText,
                   stripped, cleaned, stderr, clipboard, exitCode>>

\* explain handler: the presentation
ExplainPresent ==
    /\ pc = "present" /\ argv.cmd = "explain"
    /\ stdout' =
         IF argv.json
         THEN Append(stdout, JsonOut("explain", ABSENT, argv.question, TRUE, stripped))
         ELSE Append(stdout, Out("plain", stripped))
    /\ pc' = "history"
    /\ UNCHANGED <<appenders, argv, configFile, historyFile, history0, envPrimary, envSecondary,
                   apiKey, probe, prompt, llmCalls, response, errClass, rawText,
                   stripped, cleaned, parsed, stderr, clipboard, exitCode>>

\* parsed.command || stripped
clipboardText(p, s) == IF p.command # <<>> THEN p.command ELSE s

\* generate handler: the clipboard block; clipboard.write resolves or rejects
GenerateClipboard ==
    /\ pc = "clipboard"
    /\ IF ~noClipboard(argv)
       THEN \E written \in BOOLEAN :
              /\ clipboard' = IF written THEN Append(clipboard, clipboardText(parsed, stripped))
                              ELSE clipboard
              /\ stdout' = IF ~argv.silent /\ ~argv.json
                           THEN Append(stdout, Out(IF written THEN "copied"
                                                   ELSE "clipboard-unavailable", <<>>))
                           ELSE stdout
       ELSE UNCHANGED <<clipboard, stdout>>
    /\ pc' = "save"
    /\ UNCHANGED <<appenders, argv, configFile, historyFile, history0, envPrimary, envSecondary,
                   apiKey, probe, prompt, llmCalls, response, errClass, rawText,
                   stripped, cleaned, parsed, stderr, exitCode>>

\* generate handler: saveToCmdBook when --save is given and a command exists;
\* cmdbook is on PATH or not, and its add succeeds or not
GenerateSave ==
    /\ pc = "save"
    /\ IF argv.save /\ parsed.command # <<>>
       THEN \E onPath \in BOOLEAN, added \in BOOLEAN :
              stdout' = IF ~onPath THEN Append(stdout, Out("cmdbook-missing", <<>>))
                        ELSE IF ~added THEN Append(stdout, Out("cmdbook-failed", <<>>))
                        ELSE stdout
       ELSE UNCHANGED stdout
    /\ pc' = "history"
    /\ UNCHANGED <<appenders, argv, configFile, historyFile, history0, envPrimary, envSecondary,
                   apiKey, probe, prompt, llmCalls, response, errClass, rawText,
                   stripped, cleaned, parsed, stderr, clipboard, exitCode>>

\* the entry either handler hands to appendHistory
newEntry(a, s) ==
    HistoryEntry(NOW, IF a.cmd = "ask" THEN "generate" ELSE "explain", a.question, s)

\* either handler: appendHistory, after which the handler returns
RecordHistory ==
    /\ pc = "history"
    /\ IF appendHistory(historyFile, newEntry(argv, stripped)).threw
       THEN /\ Uncaught
            /\ UNCHANGED historyFile
       ELSE /\ historyFile' = appendHistory(historyFile, newEntry(argv, stripped)).file
            /\ Exit(0)
            /\ UNCHANGED stderr
    /\ UNCHANGED <<appenders, argv, configFile, history0, envPrimary, envSecondary, apiKey, probe,
                   prompt, llmCalls, response, errClass, rawText, stripped, cleaned,
                   parsed, stdout, clipboard>>

Next ==
    \/ PreAction
    \/ SetApiKey
    \/ ShowHistory
    \/ ShowHelp
    \/ GenerateCredential
    \/ ExplainNoCommand
    \/ ExplainCredential
    \/ GenerateCall
    \/ ExplainCall
    \/ Completion
    \/ GenerateNormalize
    \/ ExplainNormalize
    \/ GeneratePresent
    \/ ExplainPresent
    \/ GenerateClipboard
    \/ GenerateSave
    \/ RecordHistory

Spec == Init /\ [][Next]_vars

SpecCredential == InitCredential /\ [][Next]_vars

-----------------------------------------------------------------------------
(* The normalizer and the classifier on their own, over generated texts    *)

\* number of fragments a generated model output is spelled with
MaxRawFragments == 6

RawFragments == {FENCE, <<BT>>, <<NL>>, <<SP>>, <<"a">>}

\* number of fragments a generated transport error message is spelled with
MaxMessageFragments == 4

MessageFragments ==
    { <<"a", "p", "i", SP>>, <<"A", "P", "I", SP>>, <<"k", "e", "y">>, <<"K", "e", "y">>,
      S_AUTHENTICATION, <<"A", "u", "t", "h">>, <<"e", "n", "t", "i", "c", "a", "t", "i", "o", "n">>,
      <<"t", "i", "m", "e">>, <<"T", "i", "m", "e">>, <<"o", "u", "t">>, <<"x">> }

\* the state of InitOver with the handler's position and one input replaced
InitFunction(at, resp, raw) ==
    /\ pc = at
    /\ argv \in { a \in PlainArgvs : a.cmd = "ask" /\ a.question # "" /\ ~a.json
                                      /\ a.setKey = ABSENT /\ ~a.history }
    /\ configFile = FileMissing
    /\ historyFile = FileMissing
    /\ history0 = historyFile
    /\ envPrimary = ABSENT
    /\ envSecondary = ABSENT
    /\ apiKey = ABSENT
    /\ probe = NoProbe
    /\ prompt = NoPrompt
    /\ llmCalls = 0
    /\ response = resp
    /\ errClass = "none"
    /\ rawText = raw
    /\ stripped = <<>>
    /\ cleaned = <<>>
    /\ parsed = NoParsed
    /\ stdout = <<>>
    /\ stderr = <<>>
    /\ clipboard = <<>>
    /\ exitCode = -1
    /\ appenders = NoAppenders

InitNormalize ==
    \E raw \in Texts(RawFragments, MaxRawFragments) : InitFunction("raw", NoResponse, raw)

\* stripCodeFences and cleanResponse applied to the same text
NormalizeText ==
    /\ pc = "raw"
    /\ stripped' = stripCodeFences(rawText)
    /\ cleaned' = cleanResponse(rawText)
    /\ pc' = "normalized"
    /\ UNCHANGED <<appenders, argv, configFile, historyFile, history0, envPrimary, envSecondary,
                   apiKey, probe, prompt, llmCalls, response, errClass, rawText,
                   parsed, stdout, stderr, clipboard, exitCode>>

SpecNormalize == InitNormalize /\ [][NormalizeText]_vars

InitClassify ==
    \E m \in Texts(MessageFragments, MaxMessageFragments) :
        InitFunction("transport", TransportError(m), <<>>)

\* callLLM settles on a transport error: the class and message it throws
ClassifyMessage ==
    /\ pc = "transport"
    /\ errClass' = callLLM(response).class
    /\ stderr' = Append(stderr, Out("error", callLLM(response).text))
    /\ pc' = "thrown"
    /\ UNCHANGED <<appenders, argv, configFile, historyFile, history0, envPrimary, envSecondary,
                   apiKey, probe, prompt, llmCalls, response, rawText, stripped,
                   cleaned, parsed, stdout, clipboard, exitCode>>

SpecClassify == InitClassify /\ [][ClassifyMessage]_vars

\* number of fragments a generated model output with annotation lines is
\* spelled with
MaxSplitFragments == 5

SplitFragments == {SENTINEL, <<NL>>, <<SP>>, <<"a">>, <<"b">>}

InitSplit ==
    \E raw \in Texts(SplitFragments, MaxSplitFragments) : InitFunction("raw", NoResponse, raw)

\* splitCommandAndExplanation applied to the normalized text
SplitText ==
    /\ pc = "normalized"
    /\ parsed' = splitCommandAndExplanation(stripped)
    /\ pc' = "split"
    /\ UNCHANGED <<appenders, argv, configFile, historyFile, history0, envPrimary, envSecondary,
                   apiKey, probe, prompt, llmCalls, response, errClass, rawText,
                   stripped, cleaned, stdout, stderr, clipboard, exitCode>>

SpecSplit == InitSplit /\ [][NormalizeText \/ SplitText]_vars

-----------------------------------------------------------------------------
(* appendHistory of two invocations on the same history.json               *)

\* the two invocations
Procs == {1, 2}

Other(p) == CHOOSE q \in Procs : q # p

\* the entry invocation p appends; the two clock readings differ
LATER == "later"
EntryOf(p, m) ==
    HistoryEntry(IF p = 1 THEN NOW ELSE LATER, m, "list branches", <<"l", "s">>)

\* a file opened for writing and not written yet: empty, which JSON.parse
\* rejects
FileTruncated == FileGarbage

\* both handlers have presented their answer and call appendHistory
InitConcurrent ==
    /\ pc = "history"
    /\ argv \in { a \in PlainArgvs : a.cmd = "ask" /\ a.question # "" /\ ~a.json
                                      /\ a.setKey = ABSENT /\ ~a.history }
    /\ configFile = FileMissing
    /\ historyFile \in HistoryFiles
    /\ history0 = historyFile
    /\ envPrimary = ABSENT
    /\ envSecondary = ABSENT
    /\ apiKey = ABSENT
    /\ probe = NoProbe
    /\ prompt = NoPrompt
    /\ llmCalls = 0
    /\ response = NoResponse
    /\ errClass = "none"
    /\ rawText = <<>>
    /\ stripped = <<>>
    /\ cleaned = <<>>
    /\ parsed = NoParsed
    /\ stdout = <<>>
    /\ stderr = <<>>
    /\ clipboard = <<>>
    /\ exitCode = -1
    /\ \E m1, m2 \in {"generate", "explain"} :
          appenders = [p \in Procs |->
                          [at |-> "read",
                           entry |-> EntryOf(p, IF p = 1 THEN m1 ELSE m2),
                           list |-> EmptyArray]]

UnchangedButHistory ==
    UNCHANGED <<pc, argv, configFile, history0, envPrimary, envSecondary, apiKey,
                probe, prompt, llmCalls, response, errClass, rawText, stripped,
                cleaned, parsed, stdout, stderr, clipboard, exitCode>>

\* const list = readHistory(); list.push(entry) throws when list is no array
HistoryRead(p) ==
    /\ appenders[p].at = "read"
    /\ appenders' = [appenders EXCEPT
                       ![p].list = readHistory(historyFile),
                       ![p].at = IF canPush(readHistory(historyFile)) THEN "open" ELSE "threw"]
    /\ UNCHANGED historyFile
    /\ UnchangedButHistory

\* fs.writeFileSync, first half: the file is opened for writing, which
\* truncates it
HistoryOpen(p) ==
    /\ appenders[p].at = "open"
    /\ historyFile' = FileTruncated
    /\ appenders' = [appenders EXCEPT ![p].at = "write"]
    /\ UnchangedButHistory

\* the write putting the entry alone into the file
HistoryWrite_OnlyEntry(p) ==
    /\ appenders[p].at = "write"
    /\ historyFile' = writtenHistory(<<appenders[p].entry>>)
    /\ appenders' = [appenders EXCEPT ![p].at = "done"]
    /\ UnchangedButHistory

\* fs.writeFileSync, second half: JSON.stringify(list) is written from
\* offset 0.  Onto the text the other invocation wrote since the file was
\* opened, a shorter text leaves the tail of the longer one: text that
\* JSON.parse rejects
HistoryWrite(p) ==
    /\ appenders[p].at = "write"
    /\ \/ historyFile' =
             writtenHistory(Append(appenders[p].list.items, appenders[p].entry))
       \/ /\ historyFile # FileTruncated
          /\ historyFile' = FileGarbage
    /\ appenders' = [appenders EXCEPT ![p].at = "done"]
    /\ UnchangedButHistory

NextConcurrent ==
    \/ \E p \in Procs : HistoryRead(p)
    \/ \E p \in Procs : HistoryOpen(p)
    \/ \E p \in Procs : HistoryWrite(p)

SpecConcurrent == InitConcurrent /\ [][NextConcurrent]_vars

-----------------------------------------------------------------------------
(* Properties                                                              *)

\* the completion call came back and callLLM returned a text
CompletionSucceeded == response.kind # "none" /\ errClass = "none"

\* the completion call came back and callLLM threw
CompletionFailed == response.kind # "none" /\ errClass # "none"

\* stripCodeFences has been applied to the returned text
NormalizationRan == CompletionSucceeded /\ pc # "normalize"

\* the answer was written to standard output
Presented == \E i \in 1..Len(stdout) : stdout[i].kind \in {"json", "plain", "typewriter"}

\* an exception escaped the handler
Crashed == \E i \in 1..Len(stderr) : stderr[i].kind = "uncaught"

\* the invocation is one that asks the model: generate with a question, or explain
AsksModel ==
    \/ argv.cmd = "explain" /\ argv.question # ""
    \/ argv.cmd = "ask" /\ argv.setKey = ABSENT /\ ~argv.history /\ argv.question # ""

\* the handler returned after its last step
Succeeded == pc = "exited" /\ exitCode = 0 /\ CompletionSucceeded

\* the entries of history.json before the invocation, a missing or
\* unparsable file read as the empty sequence
EntriesBefore == IF history0.kind = "array" THEN history0.items ELSE <<>>

\* C1: in generate and in explain mode, the history file changes only after
\* the completion succeeded and the normalized answer is non-empty, and
\* after a failed completion or an empty normalized answer it is as before.
C1_HistoryOnlyAfterUsableAnswer ==
    /\ historyFile # history0 =>
          (CompletionSucceeded /\ NormalizationRan /\ stripped # <<>>)
    /\ (CompletionFailed \/ (NormalizationRan /\ stripped = <<>>)) =>
          historyFile = history0

\* C2: in generate and in explain mode, an empty normalized answer ends the
\* invocation with a non-zero exit and nothing is presented.
C2_EmptyNormalizedIsTerminal ==
    (NormalizationRan /\ stripped = <<>>) =>
        (pc = "exited" /\ exitCode # 0 /\ ~Presented)

\* the transport answered with no content or with whitespace only
BlankResponse ==
    \/ response.kind = "null"
    \/ response.kind = "content" /\ \A i \in 1..Len(response.text) : IsSpace(response.text[i])

\* C3: a blank transport response makes callLLM throw AskContentError to its
\* caller; the invocation exits non-zero and nothing is presented.
C3_BlankResponseIsContentError ==
    BlankResponse =>
        (errClass = "AskContentError" /\ pc = "exited" /\ exitCode # 0 /\ ~Presented)

\* the two characters are the same letter, whatever their case
SameLetter(a, b) == a = b \/ \E i \in 1..Len(UPPER) : {a, b} = {UPPER[i], LOWER[i]}

\* word occurs in msg, case ignored
OccursIgnoringCase(word, msg) ==
    \E i \in 1..(Len(msg) - Len(word) + 1) :
        \A j \in 1..Len(word) : SameLetter(msg[i + j - 1], word[j])

\* the kind the error taxonomy gives a transport error message
ExpectedKind(msg) ==
    IF OccursIgnoringCase(S_API_KEY, msg) \/ OccursIgnoringCase(S_AUTHENTICATION, msg)
    THEN "AskAuthError"
    ELSE IF OccursIgnoringCase(S_TIMEOUT, msg) THEN "AskTimeoutError"
    ELSE "AskError"

\* C4: callLLM throws AskAuthError for a message with "api key" or
\* "authentication" in any case, else AskTimeoutError for one with
\* "timeout", else AskError; authentication wins over timeout.
C4_Classification ==
    pc = "thrown" => errClass = ExpectedKind(response.text)

\* a message in mixed case naming both a key and a timeout, thrown as AskAuthError
C4_Witness ==
    /\ pc = "thrown"
    /\ OccursIgnoringCase(S_TIMEOUT, response.text)
    /\ OccursIgnoringCase(S_API_KEY, response.text)
    /\ ~includes(response.text, S_API_KEY)
    /\ errClass = "AskAuthError"

\* C5: at most one completion call is issued; once it failed the invocation
\* has exited non-zero with the error message reported last, and neither
\* normalization, presentation, clipboard nor history has run.
C5_OneCallNoRetry ==
    /\ llmCalls <= 1
    /\ CompletionFailed =>
          /\ pc = "exited" /\ exitCode # 0 /\ llmCalls = 1
          /\ stderr # <<>> /\ stderr[Len(stderr)].kind = "error"
          /\ stripped = <<>> /\ parsed = NoParsed /\ ~Presented
          /\ clipboard = <<>> /\ historyFile = history0

\* a completion that timed out, in an invocation that has exited
C5_Witness ==
    /\ CompletionFailed /\ errClass = "AskTimeoutError"
    /\ pc = "exited" /\ llmCalls = 1

\* C6: after an invocation that returned normally with a non-empty
\* normalized answer, history.json holds the entries it held before and
\* then one new entry with the invocation's mode, the request and the
\* normalized text, whatever the presentation and the clipboard outcome.
C6_OneEntryAppended ==
    (Succeeded /\ stripped # <<>>) =>
        historyFile =
            FileArray(Append(EntriesBefore,
                             [timestamp |-> NOW,
                              mode |-> IF argv.cmd = "ask" THEN "generate" ELSE "explain",
                              question |-> argv.question,
                              answer |-> stripped]))

\* a generate invocation in JSON mode whose fenced answer was normalized,
\* whose clipboard write failed, and whose history file held an entry
C6_Witness ==
    /\ Succeeded /\ argv.cmd = "ask" /\ argv.json
    /\ stripped # <<>> /\ stripped # rawText
    /\ clipboard = <<>>
    /\ EntriesBefore # <<>>
    /\ Len(historyFile.items) = Len(EntriesBefore) + 1

\* C7: whatever config.json and history.json hold, no invocation is aborted
\* by an exception from reading or appending them.
C7_StorageNeverAborts == ~Crashed

\* the generate handler has run buildGeneratePrompt
ProbesRan ==
    /\ argv.cmd = "ask" /\ truthy(apiKey)
    /\ pc \in {"awaiting", "exited"} /\ response.kind = "none"

\* C8: whatever the sub-probes meet, buildGeneratePrompt returns a prompt
\* and the completion call is made.
C8_ProbesNeverFail ==
    ProbesRan => (~prompt.threw /\ prompt.template = "generate" /\ llmCalls = 1)

\* the apiKey the config file stores, if it stores one
StoredApiKey == IF configFile.kind = "object" THEN configFile.apiKey ELSE ABSENT

\* the first non-empty value of a sequence of optional strings
RECURSIVE FirstNonEmpty(_)
FirstNonEmpty(vs) ==
    IF vs = <<>> THEN ABSENT
    ELSE IF Head(vs) # ABSENT /\ Head(vs) # "" THEN Head(vs)
    ELSE FirstNonEmpty(Tail(vs))

\* C9: the credential is the first non-empty of the stored apiKey, the
\* primary and the secondary environment variable; when there is none the
\* invocation exits with failure after the fixed diagnostic alone, without
\* a completion call, a presentation or a history write.
C9_CredentialOrder ==
    (AsksModel /\ pc \notin {"hook", "start"}) =>
        IF FirstNonEmpty(<<StoredApiKey, envPrimary, envSecondary>>) = ABSENT
        THEN /\ pc = "exited" /\ exitCode = 1
             /\ stderr = <<Out("no-api-key", <<>>)>>
             /\ llmCalls = 0 /\ ~Presented /\ historyFile = history0
        ELSE apiKey = FirstNonEmpty(<<StoredApiKey, envPrimary, envSecondary>>)

\* the text, trimmed, starts with a fence and ends with another
WhollyFenced(text) ==
    /\ Len(trim(text)) >= 2 * Len(FENCE)
    /\ SubSeq(trim(text), 1, 3) = FENCE
    /\ SubSeq(trim(text), Len(trim(text)) - 2, Len(trim(text))) = FENCE

\* what lies between the two fences
FenceBody(text) == SubSeq(trim(text), 4, Len(trim(text)) - 3)

\* the body after the opening fence line (the optional tag and its line
\* feed); the whole body when the opening fence has no line feed after it
RECURSIVE AfterFirstLine(_)
AfterFirstLine(body) ==
    IF body = <<>> THEN <<>>
    ELSE IF Head(body) = NL THEN Tail(body)
    ELSE AfterFirstLine(Tail(body))

InnerContent(text) ==
    IF \E i \in 1..Len(FenceBody(text)) : FenceBody(text)[i] = NL
    THEN AfterFirstLine(FenceBody(text))
    ELSE FenceBody(text)

\* C10: for a text wholly wrapped in a fence, with or without a tag line,
\* stripCodeFences returns the inner content as it stands (surrounding
\* white space aside), whatever the inner content is.
C10_FenceStrippedOnce ==
    (pc = "normalized" /\ WhollyFenced(rawText)) =>
        stripped = trim(InnerContent(rawText))

\* the text holds no triple-backtick fence marker (single backticks allowed)
FenceFree(text) == ~includes(text, FENCE)

\* C11: normalize is idempotent on fence-free input: for a text with no
\* triple-backtick fence marker, normalizing the normalized text gives the
\* normalized text again
C11_IdempotentOnFenceFree ==
    (pc = "normalized" /\ FenceFree(rawText)) => stripCodeFences(stripped) = stripped

\* the lines of a text, read off the positions of its line feeds
NewlinePositions(t) == {i \in 1..Len(t) : t[i] = NL}

LineCount(t) == Cardinality(NewlinePositions(t)) + 1

\* position of the k-th line feed of t
NthNewline(t, k) ==
    CHOOSE i \in NewlinePositions(t) :
        Cardinality({j \in NewlinePositions(t) : j < i}) = k - 1

TextLines(t) ==
    [k \in 1..LineCount(t) |->
        SubSeq(t, IF k = 1 THEN 1 ELSE NthNewline(t, k - 1) + 1,
                  IF k = LineCount(t) THEN Len(t) ELSE NthNewline(t, k) - 1)]

\* a line with a character that is not white space
NonBlank(line) == \E i \in 1..Len(line) : ~IsSpace(line[i])

\* number of lines of a text; the empty text has none
CountLines(t) == IF t = <<>> THEN 0 ELSE LineCount(t)

CountNonBlankLines(t) == Cardinality({k \in 1..LineCount(t) : NonBlank(TextLines(t)[k])})

\* C12 as stated: the number of lines of primaryText plus the number of
\* annotations equals the number of lines of the normalized text that are
\* non-empty after trimming
C12_LineCountPreserved ==
    pc = "split" =>
        CountLines(parsed.command) + Len(explanationLines(stripped))
            = CountNonBlankLines(stripped)

\* C12 amended: the number of non-blank lines of primaryText plus the number
\* of annotations equals the number of non-blank lines of the normalized
\* text (blank lines between command lines stay in primaryText and are not
\* counted)
C12_NonBlankLineCountPreserved ==
    pc = "split" =>
        CountNonBlankLines(parsed.command) + Len(explanationLines(stripped))
            = CountNonBlankLines(stripped)

\* a command on two lines around an annotation line
C12_Witness ==
    /\ pc = "split"
    /\ parsed.hasExplanation
    /\ CountNonBlankLines(parsed.command) = 2
    /\ CountNonBlankLines(stripped) = 3

\* a line that begins with the annotation sentinel
BeginsWithSentinel(line) ==
    /\ Len(line) >= Len(SENTINEL)
    /\ \A i \in 1..Len(SENTINEL) : line[i] = SENTINEL[i]

\* the line without its first Len(SENTINEL) characters
AfterSentinel(line) == SubSeq(line, Len(SENTINEL) + 1, Len(line))

AnnotationLines(lines) == SelectSeq(lines, LAMBDA l : BeginsWithSentinel(l))

OtherLines(lines) == SelectSeq(lines, LAMBDA l : ~BeginsWithSentinel(l))

\* the lines put together again, sep between two neighbours
RECURSIVE Joined(_, _)
Joined(lines, sep) ==
    IF lines = <<>> THEN <<>>
    ELSE IF Len(lines) = 1 THEN lines[1]
    ELSE Joined(SubSeq(lines, 1, Len(lines) - 1), sep) \o sep \o lines[Len(lines)]

\* the annotations and the primary text a partition of the given lines gives
AnnotationsOf(lines) ==
    [i \in 1..Len(AnnotationLines(lines)) |-> trim(AfterSentinel(AnnotationLines(lines)[i]))]

NoAnnotationInPrimaryText ==
    \A k \in 1..LineCount(parsed.command) : ~BeginsWithSentinel(TextLines(parsed.command)[k])

\* C13 as stated: split partitions the lines of the normalized text: every
\* line beginning with the sentinel is collected, sentinel stripped and in
\* order, into the annotations; primaryText is the newline-join of all other
\* lines in order; no line of primaryText was classified as an annotation
C13_SplitPartitionsLines ==
    pc = "split" =>
        /\ explanationLines(stripped) = AnnotationsOf(TextLines(stripped))
        /\ parsed.command = Joined(OtherLines(TextLines(stripped)), <<NL>>)
        /\ NoAnnotationInPrimaryText

TrimmedTextLines(t) == [k \in 1..LineCount(t) |-> trim(TextLines(t)[k])]

\* C13 amended: split partitions the lines of the normalized text after
\* trimming each line: every trimmed line beginning with the sentinel is
\* collected, sentinel stripped and in order, into the annotations (rendered
\* joined by one space); primaryText is the newline-join of all other
\* trimmed lines in order, trimmed as a whole; no line of primaryText begins
\* with the sentinel
C13_SplitPartitionsTrimmedLines ==
    pc = "split" =>
        /\ explanationLines(stripped) = AnnotationsOf(TrimmedTextLines(stripped))
        /\ parsed.hasExplanation = (AnnotationLines(TrimmedTextLines(stripped)) # <<>>)
        /\ parsed.explanation = Joined(AnnotationsOf(TrimmedTextLines(stripped)), <<SP>>)
        /\ parsed.command = trim(Joined(OtherLines(TrimmedTextLines(stripped)), <<NL>>))
        /\ NoAnnotationInPrimaryText

\* two annotation lines around a command line
C13_Witness ==
    /\ pc = "split"
    /\ Len(explanationLines(stripped)) = 2
    /\ parsed.command # <<>>

\* C14: in JSON mode the only text the invocation writes to standard output
\* is the one structured JSON object (mode generate or explain after the
\* handler): no banner or status line comes before or after it
C14_JsonModeOnlyJson ==
    (AsksModel /\ argv.json) =>
        /\ Len(stdout) <= 1
        /\ \A i \in 1..Len(stdout) :
              /\ stdout[i].kind = "json"
              /\ stdout[i].mode = (IF argv.cmd = "explain" THEN "explain" ELSE "generate")

\* C15: a generate invocation run with --no-clipboard performs no clipboard
\* write at any point; without the flag the generated command is what is
\* copied, and only after the presentation
C15_NoClipboardHonoured ==
    argv.cmd = "ask" =>
        /\ argv.noClipboard => clipboard = <<>>
        /\ (~argv.noClipboard /\ clipboard # <<>>) =>
              /\ Presented
              /\ clipboard = <<clipboardText(parsed, stripped)>>

\* the triple-backtick check passes on the trimmed text
FenceCheckPasses(t) == startsWith(t, FENCE) /\ endsWith(t, FENCE)

\* C16: the fence check and the backtick-pair check are mutually exclusive
\* and tried fence first: a text whose triple fence was stripped is returned
\* as the fence stripping left it, never stripped of a backtick pair as well;
\* a text that fails the fence check gets the backtick-pair check alone
C16_ChecksMutuallyExclusive ==
    pc = "normalized" =>
        IF FenceCheckPasses(trim(rawText))
        THEN stripped = stripFenceLayer(trim(rawText))
        ELSE stripped = stripTickLayer(trim(rawText))

\* the generate handler got a model output that is one sentinel line only
SoleSentinelOutput ==
    /\ argv.cmd = "ask" /\ CompletionSucceeded
    /\ LineCount(trim(rawText)) = 1
    /\ BeginsWithSentinel(trim(rawText))

\* standard output shows an empty command and then the warning
EmptyCommandWithWarning ==
    \E i \in 1..Len(stdout) :
        \/ /\ stdout[i].kind = "json"
           /\ stdout[i].text = <<>>
           /\ stdout[i].hasExplanation
        \/ /\ stdout[i].kind \in {"plain", "typewriter"}
           /\ stdout[i].text = <<>>
           /\ \E j \in (i + 1)..Len(stdout) : stdout[j].kind = "explain-note"

\* C17: when the model output is one sentinel line only, the generate
\* handler never exits with failure, and when it has finished split has given
\* an empty primaryText and one annotation, the empty command and the
\* warning were shown, the exit status is 0 and history.json holds one more
\* entry
C17_SoleSentinelProceeds ==
    SoleSentinelOutput =>
        /\ exitCode \in {-1, 0}
        /\ pc = "exited" =>
              /\ parsed.command = <<>>
              /\ Len(explanationLines(stripped)) = 1
              /\ EmptyCommandWithWarning
              /\ historyFile.kind = "array"
              /\ Len(historyFile.items) = Len(EntriesBefore) + 1

\* both invocations returned from appendHistory
BothAppended == \A p \in Procs : appenders[p].at = "done"

\* history.json holds the entry of invocation p
Persisted(p) ==
    /\ historyFile.kind = "array"
    /\ \E i \in 1..Len(historyFile.items) : historyFile.items[i] = appenders[p].entry

\* invocation p read history.json after the other one had written its entry
ReadAfterOther(p) ==
    \E i \in 1..Len(appenders[p].list.items) :
        appenders[p].list.items[i] = appenders[Other(p)].entry

\* C18: appendHistory is read-then-write with no lock: once both invocations
\* have appended, history.json holds both new entries exactly when one of
\* them read the file after the other had written; when the two reads both
\* came first, an entry is lost
C18_EntryLostIffInterleaved ==
    BothAppended =>
        ((\A p \in Procs : Persisted(p)) <=> (\E p \in Procs : ReadAfterOther(p)))

\* an interleaving after which history.json holds the earlier entries and
\* only one of the two new entries
C18_Witness ==
    /\ BothAppended
    /\ EntriesBefore # <<>>
    /\ historyFile.kind = "array"
    /\ Len(historyFile.items) = Len(EntriesBefore) + 1
    /\ \E p \in Procs : Persisted(p) /\ ~Persisted(Other(p))
====
